---- MODULE Spec2Model ----
(***************************************************************************)
(* A model of the Dwarf Fortress raw-file reader of pwildani/dfconfig:     *)
(* the tag tokenizer (TagStream), token coercion (ParseToken), the tag and *)
(* object registries (TAG, DF_OBJECT_REGISTRY), the object assembler       *)
(* (DFConfig.ImportStream) and rendering (DFConfig.Render).                *)
(*                                                                         *)
(* Text is a sequence of atoms.  An atom is one character ("[", "]", ":",  *)
(* "\n", ".", a digit) or an indivisible word of letters ("OBJECT",        *)
(* "COLOR", "A"): the tokenizer sends every character of a word to the     *)
(* same handler, so reading a word is reading its characters one by one.   *)
(* No atom holds a sign, an exponent letter, "inf" or "nan", so the only   *)
(* numeric tokens are digit strings with at most one ".", possibly         *)
(* surrounded by white space.                                              *)
(***************************************************************************)
EXTENDS Integers, Sequences, FiniteSets, TLC

\* ------------------------------------------------------------------ bounds

\* Characters read by one tokenizer-only run (SpecLex).
MaxChars == 6
\* Chunks of source text read over all imports of one behaviour (Spec).
MaxChunks == 5
\* ImportStream calls in one behaviour (Spec).
MaxImports == 2
\* Direct AppendTag calls on one record in one behaviour (SpecSection).
MaxCalls == 5

\* ------------------------------------------------------------------ text

Last(s) == s[Len(s)]
Front(s) == SubSeq(s, 1, Len(s) - 1)

RECURSIVE Cat(_)
\* ''.join(text): the text as one string.
Cat(s) == IF s = <<>> THEN "" ELSE s[1] \o Cat(Tail(s))

RECURSIVE Flatten(_)
\* The concatenation of a sequence of texts.
Flatten(ss) == IF ss = <<>> THEN <<>> ELSE ss[1] \o Flatten(Tail(ss))

RECURSIVE Join(_, _)
\* sep.join(texts)
Join(sep, ss) ==
  IF ss = <<>> THEN <<>>
  ELSE IF Len(ss) = 1 THEN ss[1]
  ELSE ss[1] \o <<sep>> \o Join(sep, Tail(ss))

\* ------------------------------------------------------- token coercion

DigitVal ==
  [c \in {"0", "1", "2", "3", "4", "5", "6", "7", "8", "9"} |->
     CASE c = "0" -> 0 [] c = "1" -> 1 [] c = "2" -> 2 [] c = "3" -> 3
       [] c = "4" -> 4 [] c = "5" -> 5 [] c = "6" -> 6 [] c = "7" -> 7
       [] c = "8" -> 8 [] c = "9" -> 9]

DigitChar == <<"0", "1", "2", "3", "4", "5", "6", "7", "8", "9">>

IsDigit(c) == c \in DOMAIN DigitVal

\* str.isspace of the characters the model reads.
IsSpace(c) == c \in {"\n", " "}

RECURSIVE LStrip(_)
LStrip(s) == IF s # <<>> /\ IsSpace(s[1]) THEN LStrip(Tail(s)) ELSE s

RECURSIVE RStrip(_)
RStrip(s) == IF s # <<>> /\ IsSpace(Last(s)) THEN RStrip(Front(s)) ELSE s

\* int() and float() skip leading and trailing white space.
Strip(s) == RStrip(LStrip(s))

IsDigits(s) == s # <<>> /\ \A i \in 1..Len(s) : IsDigit(s[i])

RECURSIVE DigitsVal(_)
DigitsVal(s) == IF s = <<>> THEN 0 ELSE 10 * DigitsVal(Front(s)) + DigitVal[Last(s)]

RECURSIVE Pow10(_)
Pow10(e) == IF e = 0 THEN 1 ELSE 10 * Pow10(e - 1)

\* int(token) succeeds.
IsInt(t) == IsDigits(Strip(t))

\* float(token) succeeds: digits with exactly one ".", at least one digit.
IsFloat(t) ==
  LET s == Strip(t) IN
    \/ IsDigits(s)
    \/ /\ Len(s) >= 2
       /\ \E d \in 1..Len(s) :
            /\ s[d] = "."
            /\ \A i \in 1..Len(s) : i # d => IsDigit(s[i])

RECURSIVE Normal(_, _)
\* The value n / 10^e with no trailing zero in its fraction.
Normal(n, e) ==
  IF e > 0 /\ n % 10 = 0 THEN Normal(n \div 10, e - 1) ELSE [n |-> n, e |-> e]

\* A token's value: an int n, a float n / 10^e, or the interned text s.
IntValue(n) == [k |-> "int", n |-> n, e |-> 0, s |-> <<>>]
FloatValue(n, e) == [k |-> "float", n |-> Normal(n, e).n, e |-> Normal(n, e).e, s |-> <<>>]
Symbol(val) == [k |-> "str", n |-> 0, e |-> 0, s |-> val]

ParseFloat(t) ==
  LET s == Strip(t)
      d == CHOOSE i \in 1..Len(s) : s[i] = "."
      digits == SubSeq(s, 1, d - 1) \o SubSeq(s, d + 1, Len(s))
  IN  FloatValue(DigitsVal(digits), Len(s) - d)

\* ParseToken: the first of int, float, Symbol that accepts the token.
ParseToken(token) ==
  IF IsInt(token) THEN IntValue(DigitsVal(Strip(token)))
  ELSE IF IsFloat(token) THEN ParseFloat(token)
  ELSE Symbol(token)

RECURSIVE IntStr(_)
\* str(n) of an int n >= 0.
IntStr(n) == IF n < 10 THEN <<DigitChar[n + 1]>> ELSE IntStr(n \div 10) \o <<DigitChar[(n % 10) + 1]>>

RECURSIVE FracStr(_, _)
\* The e digits of a fraction n / 10^e < 1.
FracStr(n, e) == IF e = 0 THEN <<>> ELSE FracStr(n \div 10, e - 1) \o <<DigitChar[(n % 10) + 1]>>

\* str(value), as map(str, self.tokens) applies it.  A float prints as '%.12g'
\* does for a value of at most 12 digits that is 0 or at least 0.0001, with ".0"
\* added to a whole number.
Str(v) ==
  IF v.k = "int" THEN IntStr(v.n)
  ELSE IF v.k = "float" THEN
    IntStr(v.n \div Pow10(v.e)) \o <<".">> \o
      (IF v.e = 0 THEN <<"0">> ELSE FracStr(v.n % Pow10(v.e), v.e))
  ELSE v.s

\* A value as a dict key: a str is its text; an int and a float of the same
\* number n / 10^e are one key, "#<n>e-<e>", which is the text of no str (no atom
\* holds "#").
Key(v) ==
  IF v.k = "str" THEN Cat(v.s)
  ELSE "#" \o Cat(IntStr(Normal(v.n, v.e).n)) \o "e-" \o Cat(IntStr(Normal(v.n, v.e).e))

\* The key of a raw token, a str.
StrKey(name) == Key(Symbol(name))

\* ------------------------------------------------ tag and object classes

\* A class is <<kind, name>>.
\* Tag classes: class Tag; class OBJECT(Tag); a class that @START_TAG() made an
\* ObjectStartTag, by the name it is registered under; the SectionTag class that
\* @SECTION() makes for a subsection; the StartTag class that
\* DeclareGenericObjectType makes for an object name.
TagClass == <<"Tag", "">>
OBJECT == <<"OBJECT", "">>
START_TAG(name) == <<"START_TAG", name>>
SectionTag(name) == <<"SectionTag", name>>
StartTag(objectname) == <<"StartTag", Key(objectname)>>

\* A Tag subclass declared inside an @DF_OBJECT() class and registered by @TAG().
DeclaredTag(name) == <<"TAG", name>>

\* Object classes: a class declared by @DF_OBJECT(), a subsection class declared
\* by @SECTION(), the _Object class of a generic object type; and None.
DF_OBJECT(name) == <<"DF_OBJECT", name>>
SECTION(name) == <<"SECTION", name>>
GenericObject(objectname) == <<"_Object", Key(objectname)>>
None == <<"None", "">>

\* The object types the module declares.
ModuleTypes == {"DESCRIPTOR", "ITEM", "MATGLOSS", "LANGUAGE", "BODY"}

\* An object type that a program using the module declares with the module's
\* decorators, to have a descriptor that sets what the module's own leave at
\* the defaults of DFObject:
\*   @DF_OBJECT()
\*   class STRICT:
\*     ALLOW_UNKNOWN_TAGS = False
\*     @START_TAG()
\*     class S: pass
\*     @TAG()
\*     class T(Tag): pass
\*     @SECTION()
\*     class SEC:
\*       ALLOW_UNKNOWN_TAGS = False
\* and one whose own descriptor keeps the defaults and whose subsection does not:
\*   @DF_OBJECT()
\*   class LOOSE:
\*     @START_TAG()
\*     class L: pass
\*     @SECTION()
\*     class PART:
\*       ALLOW_UNKNOWN_TAGS = False
CallerTypes == {"STRICT", "LOOSE"}

\* The start tags declared inside each @DF_OBJECT() class.
DeclaredStartTags ==
  [o \in ModuleTypes \cup CallerTypes |->
     CASE o = "DESCRIPTOR" -> {"COLOR", "SHAPE"}
       [] o = "STRICT" -> {"S"}
       [] o = "LOOSE" -> {"L"}
       [] o = "ITEM" -> {"ITEM_AMMO", "ITEM_ARMOR", "ITEM_FOOD", "ITEM_GLOVES",
                         "ITEM_HELM", "ITEM_INSTRUMENT", "ITEM_PANTS", "ITEM_SHIELD",
                         "ITEM_SHOES", "ITEM_SIEGEAMMO", "ITEM_TOY", "ITEM_TRAPCOMP",
                         "ITEM_WEAPON"}
       [] o = "MATGLOSS" -> {"MATGLOSS_METAL", "MATGLOSS_PLANT", "MATGLOSS_STONE",
                             "MATGLOSS_WOOD"}
       [] o = "LANGUAGE" -> {"TRANSLATION", "SYMBOL", "WORD"}
       [] o = "BODY" -> {"BODY", "BODYGLOSS"}]

\* The subsections declared inside each @DF_OBJECT() class.
DeclaredSections ==
  [o \in DOMAIN DeclaredStartTags |->
     IF o = "BODY" THEN {"BP"}
     ELSE IF o = "STRICT" THEN {"SEC"}
     ELSE IF o = "LOOSE" THEN {"PART"}
     ELSE {}]

\* The Tag subclasses declared inside each @DF_OBJECT() class.
DeclaredTags ==
  [o \in DOMAIN DeclaredStartTags |-> IF o = "STRICT" THEN {"T"} ELSE {}]

\* cls.START_TAGS, as _GrovelForImplicitDefinitions sets it.
START_TAGS(cls) ==
  IF cls[1] = "DF_OBJECT" THEN {START_TAG(n) : n \in DeclaredStartTags[cls[2]]}
  ELSE IF cls[1] = "_Object" THEN {<<"StartTag", cls[2]>>}
  ELSE IF cls[1] = "SECTION" THEN {SectionTag(cls[2])}
  ELSE {}

\* cls.SUBSECTIONS and cls.SUBSECTION_TAGS.
SUBSECTIONS(cls) ==
  IF cls[1] = "DF_OBJECT" THEN {SECTION(n) : n \in DeclaredSections[cls[2]]} ELSE {}

SUBSECTION_TAGS(cls) ==
  IF cls[1] = "DF_OBJECT" THEN {SectionTag(n) : n \in DeclaredSections[cls[2]]} ELSE {}

\* cls.TAGS: no class of the module declares a plain Tag subclass.
TAGS(cls) ==
  IF cls[1] = "DF_OBJECT" THEN {DeclaredTag(n) : n \in DeclaredTags[cls[2]]} ELSE {}

\* cls.ALLOW_UNKNOWN_TAGS: the default of DFObject, which no class of the
\* module overrides.
ALLOW_UNKNOWN_TAGS(cls) == cls \notin {DF_OBJECT("STRICT"), SECTION("SEC"), SECTION("PART")}

\* ObjectStartTag.MAX_TOKENS and MIN_TOKENS, and those of the StartTag class
\* of a generic object type.
ObjectStartTag_MAX_TOKENS == 2
ObjectStartTag_MIN_TOKENS == 2
StartTag_MAX_TOKENS == 2
StartTag_MIN_TOKENS == 2

\* cls.MAX_TOKENS and cls.MIN_TOKENS; 0 stands for None.
MAX_TOKENS(cls) ==
  IF cls[1] \in {"START_TAG", "SectionTag"} THEN ObjectStartTag_MAX_TOKENS
  ELSE IF cls[1] = "StartTag" THEN StartTag_MAX_TOKENS
  ELSE 0

MIN_TOKENS(cls) ==
  IF cls[1] \in {"START_TAG", "SectionTag"} THEN ObjectStartTag_MIN_TOKENS
  ELSE IF cls[1] = "StartTag" THEN StartTag_MIN_TOKENS
  ELSE 0

\* The registries as loading the module leaves them.  The variables TAG and
\* DF_OBJECT_REGISTRY hold the entries set since then; an entry set since
\* replaces the loaded one of the same key.
LoadedTAG ==
  [k \in {"OBJECT"}
         \cup UNION {DeclaredStartTags[o] : o \in ModuleTypes}
         \cup UNION {DeclaredSections[o] : o \in ModuleTypes} |->
     IF k = "OBJECT" THEN OBJECT
     ELSE IF \E o \in ModuleTypes : k \in DeclaredSections[o] THEN SectionTag(k)
     ELSE START_TAG(k)]

LoadedRegistry == [k \in ModuleTypes |-> DF_OBJECT(k)]

\* The entries that the declarations of the using program add to the registries.
CallerTAG ==
  [k \in UNION {DeclaredStartTags[o] \cup DeclaredSections[o] \cup DeclaredTags[o] :
                 o \in CallerTypes} |->
     IF \E o \in CallerTypes : k \in DeclaredSections[o] THEN SectionTag(k)
     ELSE IF \E o \in CallerTypes : k \in DeclaredTags[o] THEN DeclaredTag(k)
     ELSE START_TAG(k)]

CallerRegistry == [k \in CallerTypes |-> DF_OBJECT(k)]

TagRegistry(set) == set @@ LoadedTAG

ObjectRegistry(set) == set @@ LoadedRegistry

\* ------------------------------------------------------------------- tags

NoFile == "<none>"

\* Tag.__init__: the coerced tokens, no file, no line, comment '\n'.  The field
\* raw is history: the token texts the constructor was given, which the code
\* does not keep.
Tag(cls, tokens) ==
  [cls |-> cls,
   tokens |-> [i \in 1..Len(tokens) |-> ParseToken(tokens[i])],
   filename |-> NoFile, start_line |-> 0, comment |-> <<"\n">>,
   raw |-> tokens]

NoTag == [cls |-> None, tokens |-> <<>>, filename |-> NoFile, start_line |-> 0,
          comment |-> <<>>, raw |-> <<>>]

TagName(tag) == tag.tokens[1]

\* Tag.Render: the comment, then the tokens' str joined by ':' in brackets.
TagRender(tag) ==
  tag.comment \o <<"[">> \o
    Join(":", [i \in 1..Len(tag.tokens) |-> Str(tag.tokens[i])]) \o <<"]">>

\* What the tokenizer yields and what a file's element list holds: a tag, a
\* record (a reference into the heap of DFObject instances), a ToplevelComment.
TagElt(tag) == [k |-> "tag", tag |-> tag, ref |-> 0, text |-> <<>>]
ObjElt(ref) == [k |-> "obj", tag |-> NoTag, ref |-> ref, text |-> <<>>]
ToplevelComment(text) == [k |-> "comment", tag |-> NoTag, ref |-> 0, text |-> text]

\* ----------------------------------------------------------------- errors

NoError == [type |-> "None", filename |-> NoFile, linenum |-> 0,
            other_filename |-> NoFile, other_line |-> 0]

\* FileLineError(filename, linenum, ...), as ParseError.
FileLineError(type, filename, linenum) ==
  [type |-> type, filename |-> filename, linenum |-> linenum,
   other_filename |-> NoFile, other_line |-> 0]

\* TagError(tag, message): the tag's file and start line.
TagError(type, tag) == FileLineError(type, tag.filename, tag.start_line)

\* DuplicateDefinition(preexisting, current): at the current start tag, the
\* message naming the file and line of the pre-existing record's start tag.
DuplicateDefinition(preexisting, current) ==
  [TagError("DuplicateDefinition", current.typetag) EXCEPT
     !.other_filename = preexisting.typetag.filename,
     !.other_line = preexisting.typetag.start_line]

\* An exception that is no FileLineError (IndexError, TypeError, AttributeError,
\* NameError): it carries no file and no line.
PythonError(type) == FileLineError(type, NoFile, 0)

\* ------------------------------------------------------------------ state

VARIABLES
  TAG,                 \* the TAG registry: token name -> tag class
  DF_OBJECT_REGISTRY,  \* object type name -> object class
  heap,                \* the DFObject instances that the document holds
  objects,             \* DFConfig.objects: (type, subtype, name) -> instance
  toplevel,            \* DFConfig.toplevel: filename -> element list
  parser,              \* the TagStream parser of the stream being read
  current_def,         \* ImportStream's local: the open record (0: None; Unheld)
  current_type,        \* ImportStream's local: the current object class
  current_typename,    \* ImportStream's local: the current object type name
  filename,            \* the filename of the stream being read
  stream,              \* the text read from the stream so far
  emitted,             \* what TagStream has yielded for this stream
  raised,              \* the exception the last call raised, if any
  pc,                  \* "idle", "reading", "returned" or "raised"
  module,              \* whose TagStream reads: "config_file" or "df_syntax"
  consumer,            \* who iterates TagStream: "ImportStream" or "list"
  alphabet,            \* the pieces of text a stream is made of
  nread,               \* pieces read so far, over all streams
  imports,             \* ImportStream calls so far
  validated            \* the outcome of DFConfig.Validate, if called since the last import

vars == <<TAG, DF_OBJECT_REGISTRY, heap, objects, toplevel, parser, current_def,
          current_type, current_typename, filename, stream, emitted, raised, pc,
          module, consumer, alphabet, nread, imports, validated>>

\* The mutable state as one value, for the operators that thread it.
World ==
  [TAG |-> TAG, DF_OBJECT_REGISTRY |-> DF_OBJECT_REGISTRY, heap |-> heap,
   objects |-> objects, toplevel |-> toplevel, parser |-> parser,
   current_def |-> current_def, current_type |-> current_type,
   current_typename |-> current_typename, filename |-> filename,
   stream |-> stream, emitted |-> emitted, raised |-> raised, module |-> module,
   consumer |-> consumer, results |-> <<>>]

Raise(w, error) == [w EXCEPT !.raised = error]

Failed(w) == w.raised.type # "None"

\* ----------------------------------------------------------- the registry

\* DeclareGenericObjectType: @START_TAG(name=objectname) registers the new
\* StartTag class in TAG; START_TAG.__name__ = objectname then raises TypeError
\* unless objectname is a str; @DF_OBJECT(name=objectname) registers _Object.
DeclareGenericObjectType(w, objectname) ==
  LET w1 == [w EXCEPT !.TAG = (Key(objectname) :> StartTag(objectname)) @@ w.TAG] IN
    IF objectname.k # "str" THEN Raise(w1, PythonError("TypeError"))
    ELSE [w1 EXCEPT !.DF_OBJECT_REGISTRY =
                       (Key(objectname) :> GenericObject(objectname)) @@ w1.DF_OBJECT_REGISTRY]

\* OBJECT.__init__: Tag.__init__, then self.ObjectType() (tokens[1], an
\* IndexError on a tag of one token) is declared if it is not registered.
OBJECT__init__(w, tokens) ==
  LET tag == Tag(OBJECT, tokens) IN
    IF Len(tag.tokens) < 2 THEN [w |-> Raise(w, PythonError("IndexError")), tag |-> tag]
    ELSE IF Key(tag.tokens[2]) \in DOMAIN ObjectRegistry(w.DF_OBJECT_REGISTRY)
      THEN [w |-> w, tag |-> tag]
    ELSE [w |-> DeclareGenericObjectType(w, tag.tokens[2]), tag |-> tag]

\* cls(tokens)
Construct(w, cls, tokens) ==
  IF cls = OBJECT THEN OBJECT__init__(w, tokens) ELSE [w |-> w, tag |-> Tag(cls, tokens)]

\* NewTag: the class registered for the raw first token, or Tag.
NewTag(w, tokens) ==
  IF StrKey(tokens[1]) \in DOMAIN TagRegistry(w.TAG)
    THEN Construct(w, TagRegistry(w.TAG)[StrKey(tokens[1])], tokens)
    ELSE Construct(w, TagClass, tokens)

\* The tag_factory of the stream: NewTag in config_file; df_syntax.TagStream
\* takes it as an argument, here df_syntax.Tag.
tag_factory(w, tokens) ==
  IF w.module = "config_file" THEN NewTag(w, tokens) ELSE Construct(w, TagClass, tokens)

\* ---------------------------------------------------------- the tokenizer

\* Parser.__init__
NewParser == [state |-> "STATE_TOPLEVEL", comment |-> <<>>, tag |-> <<>>,
              tag_start |-> 0, counts |-> 0]

\* A bug CurrentLine could have: lines counted from zero.
CurrentLineFromZero(p) == p.counts

\* CurrentLine: counts['\n'] + 1
CurrentLine(p) == p.counts + 1

CommentChar(w, c) == [w EXCEPT !.parser.comment = Append(@, c)]

TagChar(w, c) == [w EXCEPT !.parser.tag[Len(w.parser.tag)] = Append(@, c)]

\* A bug TagSection could have: ':' taken as a character of the token.
TagSectionAsTagChar(w, c) == [w EXCEPT !.parser.tag[Len(w.parser.tag)] = Append(@, c)]

TagSection(w, c) == [w EXCEPT !.parser.tag = Append(@, <<>>)]

TagStart(w, c) ==
  [w EXCEPT !.parser.tag = << <<>> >>,
            !.parser.tag_start = CurrentLine(w.parser),
            !.parser.state = "STATE_TAG"]

\* A bug TagEnd could have: the comment buffer is not cleared.
TagEndKeepsComment(w, c) ==
  LET made == tag_factory(w, w.parser.tag)
      tag == [made.tag EXCEPT !.comment = w.parser.comment,
                              !.start_line = w.parser.tag_start,
                              !.filename = w.filename]
  IN  IF Failed(made.w) THEN made.w
      ELSE [made.w EXCEPT !.parser.tag = <<>>,
                          !.parser.state = "STATE_TOPLEVEL",
                          !.results = <<TagElt(tag)>>]

\* TagEnd: the factory's tag with the comment, start line and filename; the
\* tag and comment buffers are cleared and the tag is returned to be yielded.
TagEnd(w, c) ==
  LET made == tag_factory(w, w.parser.tag)
      tag == [made.tag EXCEPT !.comment = w.parser.comment,
                              !.start_line = w.parser.tag_start,
                              !.filename = w.filename]
  IN  IF Failed(made.w) THEN made.w
      ELSE [made.w EXCEPT !.parser.tag = <<>>,
                          !.parser.comment = <<>>,
                          !.parser.state = "STATE_TOPLEVEL",
                          !.results = <<TagElt(tag)>>]

\* A bug UnexpectedStartTag could have: the line of the second '['.
UnexpectedStartTagAtCurrentLine(w, c) ==
  Raise(w, FileLineError("ParseError", w.filename, CurrentLine(w.parser)))

UnexpectedStartTag(w, c) ==
  Raise(w, FileLineError("ParseError", w.filename, w.parser.tag_start))

\* self.state[char](char): STATE_TAG and STATE_TOPLEVEL.
Dispatch(w, c) ==
  IF w.parser.state = "STATE_TAG" THEN
    CASE c = "]" -> TagEnd(w, c)
      [] c = ":" -> TagSection(w, c)
      [] c = "[" -> UnexpectedStartTag(w, c)
      [] OTHER -> TagChar(w, c)
  ELSE
    CASE c = "[" -> TagStart(w, c)
      [] OTHER -> CommentChar(w, c)

\* ------------------------------------------------------------ DFObject

\* The value of current_def when it is an instance that neither the index nor
\* a file's element list holds.
Unheld == -1

\* DFObject(typetag): no tags, comment None (here the empty text, which is as
\* false as None).
DFObject(cls, typetag) == [cls |-> cls, typetag |-> typetag, tags |-> <<>>, comment |-> <<>>]

\* The member of a record is a record itself (an instance of DFObject), not a tag.
IsDFObject(x) == "typetag" \in DOMAIN x

IsInstance(x, classes) == x.cls \in classes

\* DFObject.AppendTag: the object after the call, and what it raised.
\* raise DisallowedTag(self, tag): the message is formatted with
\* tag.TagName(), which only a tag has.
DisallowedTag(self, tag) ==
  IF ~IsDFObject(tag)
    THEN [self |-> self, raised |-> TagError("DisallowedTag", tag)]
    ELSE [self |-> self, raised |-> PythonError("AttributeError")]

\* A bug AppendTag could have: every tag is appended, whatever the descriptor.
AppendTagTolerant(self, tag) ==
  [self |-> [self EXCEPT !.tags = Append(@, tag)], raised |-> NoError]

RECURSIVE AppendTag(_, _)
AppendTag(self, tag) ==
  IF IsInstance(tag, TAGS(self.cls))
    THEN [self |-> [self EXCEPT !.tags = Append(@, tag)], raised |-> NoError]
  ELSE IF IsInstance(tag, SUBSECTION_TAGS(self.cls))
    THEN [self |-> [self EXCEPT !.tags = Append(@, tag)], raised |-> NoError]
  ELSE IF self.tags # <<>> /\ IsInstance(Last(self.tags), SUBSECTIONS(self.cls))
    THEN LET sub == AppendTag(Last(self.tags), tag)
         IN  [self |-> [self EXCEPT !.tags[Len(self.tags)] = sub.self],
              raised |-> sub.raised]
  ELSE IF ALLOW_UNKNOWN_TAGS(self.cls)
    THEN [self |-> [self EXCEPT !.tags = Append(@, tag)], raised |-> NoError]
  ELSE DisallowedTag(self, tag)

\* DFObject.Render: the comment if there is one, the start tag's render, then
\* each member's Render: Tag.Render of a tag, DFObject.Render of a record.
RECURSIVE DFObjectRender(_)
DFObjectRender(self) ==
  self.comment \o TagRender(self.typetag) \o
    Flatten([i \in 1..Len(self.tags) |->
               IF IsDFObject(self.tags[i]) THEN DFObjectRender(self.tags[i])
               ELSE TagRender(self.tags[i])])

\* The first exception of a sequence of outcomes, NoError if there is none.
RECURSIVE FirstError(_)
FirstError(outcomes) ==
  IF outcomes = <<>> THEN NoError
  ELSE IF outcomes[1].type # "None" THEN outcomes[1]
  ELSE FirstError(Tail(outcomes))

\* Tag.Validate: InvalidTag for more tokens than MAX_TOKENS or fewer than
\* MIN_TOKENS, where the class sets them.
TagValidate(tag) ==
  IF MAX_TOKENS(tag.cls) # 0 /\ Len(tag.tokens) > MAX_TOKENS(tag.cls)
    THEN TagError("InvalidTag", tag)
  ELSE IF MIN_TOKENS(tag.cls) # 0 /\ Len(tag.tokens) < MIN_TOKENS(tag.cls)
    THEN TagError("InvalidTag", tag)
  ELSE NoError

\* DFObject.Validate: each of self.tags is validated, in order: Tag.Validate
\* of a tag, DFObject.Validate of a record.
RECURSIVE DFObjectValidate(_)
DFObjectValidate(self) ==
  FirstError([i \in 1..Len(self.tags) |->
                IF IsDFObject(self.tags[i]) THEN DFObjectValidate(self.tags[i])
                ELSE TagValidate(self.tags[i])])

\* ------------------------------------------------------------ DFConfig

FileIndexAppend(w, elt) == [w EXCEPT !.toplevel[w.filename] = Append(@, elt)]

\* A bug the OBJECT branch could have: the open record stays open.
SwitchTypeKeepsRecord(w, tag) ==
  FileIndexAppend(
    [w EXCEPT !.current_type = ObjectRegistry(w.DF_OBJECT_REGISTRY)[Key(tag.tokens[2])],
              !.current_typename = tag.tokens[2]],
    TagElt(tag))

\* The OBJECT branch of ImportStream's loop: switch types.
SwitchType(w, tag) ==
  FileIndexAppend(
    [w EXCEPT !.current_type = ObjectRegistry(w.DF_OBJECT_REGISTRY)[Key(tag.tokens[2])],
              !.current_typename = tag.tokens[2],
              !.current_def = 0],
    TagElt(tag))

\* A bug the start-tag branch could have: no test for the key being taken, so
\* that the new object replaces the indexed one.
NewObjectUnchecked(w, tag) ==
  IF Len(tag.tokens) < 2
    THEN Raise([w EXCEPT !.current_def = Unheld], PythonError("IndexError"))
  ELSE
    LET def == DFObject(w.current_type, tag)
        key == <<Key(w.current_typename), Key(tag.tokens[1]), Key(tag.tokens[2])>>
        ref == Len(w.heap) + 1
    IN  FileIndexAppend(
          [w EXCEPT !.heap = Append(@, def),
                    !.objects = (key :> ref) @@ w.objects,
                    !.current_def = ref],
          ObjElt(ref))

\* A bug the start-tag branch could have: the name is looked for under every
\* subtype of the type.
NewObjectNameAcrossSubtypes(w, tag) ==
  IF Len(tag.tokens) < 2
    THEN Raise([w EXCEPT !.current_def = Unheld], PythonError("IndexError"))
  ELSE
    LET def == DFObject(w.current_type, tag)
        key == <<Key(w.current_typename), Key(tag.tokens[1]), Key(tag.tokens[2])>>
        ref == Len(w.heap) + 1
        taken == {k \in DOMAIN w.objects : k[1] = key[1] /\ k[3] = key[3]}
    IN  IF taken # {}
          THEN Raise([w EXCEPT !.current_def = Unheld],
                     DuplicateDefinition(w.heap[w.objects[CHOOSE k \in taken : TRUE]], def))
          ELSE FileIndexAppend(
                 [w EXCEPT !.heap = Append(@, def),
                           !.objects = (key :> ref) @@ w.objects,
                           !.current_def = ref],
                 ObjElt(ref))

\* A bug the start-tag branch could have: the index is written before the
\* duplicate is refused.
NewObjectIndexedBeforeCheck(w, tag) ==
  IF Len(tag.tokens) < 2
    THEN Raise([w EXCEPT !.current_def = Unheld], PythonError("IndexError"))
  ELSE
    LET def == DFObject(w.current_type, tag)
        key == <<Key(w.current_typename), Key(tag.tokens[1]), Key(tag.tokens[2])>>
        ref == Len(w.heap) + 1
        put == [w EXCEPT !.heap = Append(@, def),
                         !.objects = (key :> ref) @@ w.objects,
                         !.current_def = ref]
    IN  IF key \in DOMAIN w.objects
          THEN Raise(put, DuplicateDefinition(w.heap[w.objects[key]], def))
          ELSE FileIndexAppend(put, ObjElt(ref))

\* A bug the start-tag branch could have: the new object is appended to the
\* file's elements and not indexed.
NewObjectUnindexed(w, tag) ==
  IF Len(tag.tokens) < 2
    THEN Raise([w EXCEPT !.current_def = Unheld], PythonError("IndexError"))
  ELSE
    LET def == DFObject(w.current_type, tag)
        ref == Len(w.heap) + 1
    IN  FileIndexAppend(
          [w EXCEPT !.heap = Append(@, def), !.current_def = ref],
          ObjElt(ref))

\* The start-tag branch: current_def is bound to a new object, which is
\* indexed under (type, subtype, name) unless that key is taken, then appended
\* to the file's elements.  When tag.ObjectIdentifier() or the duplicate check
\* raises, current_def is left bound to the new object, which nothing holds.
NewObject(w, tag) ==
  IF Len(tag.tokens) < 2
    THEN Raise([w EXCEPT !.current_def = Unheld], PythonError("IndexError"))
  ELSE
    LET def == DFObject(w.current_type, tag)
        key == <<Key(w.current_typename), Key(tag.tokens[1]), Key(tag.tokens[2])>>
        ref == Len(w.heap) + 1
    IN  IF key \in DOMAIN w.objects
          THEN Raise([w EXCEPT !.current_def = Unheld],
                     DuplicateDefinition(w.heap[w.objects[key]], def))
          ELSE FileIndexAppend(
                 [w EXCEPT !.heap = Append(@, def),
                           !.objects = (key :> ref) @@ w.objects,
                           !.current_def = ref],
                 ObjElt(ref))

\* The current_def branch: feed the current object.
FeedCurrent(w, tag) ==
  LET r == AppendTag(w.heap[w.current_def], tag) IN
    IF r.raised.type # "None" THEN Raise(w, r.raised)
    ELSE [w EXCEPT !.heap[w.current_def] = r.self]

\* The last branch: print current_type.START_TAGS (an AttributeError while
\* current_type is None), then raise UnknownToplevelTag.
Unrecognized(w, tag) ==
  IF w.current_type = None THEN Raise(w, PythonError("AttributeError"))
  ELSE Raise(w, TagError("UnknownToplevelTag", tag))

\* A bug the loop could have: a start tag of any object type opens a record.
LoopBodyAnyStartTag(w, elt) ==
  IF elt.k = "tag" THEN
    IF elt.tag.cls = OBJECT THEN SwitchType(w, elt.tag)
    ELSE IF w.current_type # None /\ elt.tag.cls[1] \in {"START_TAG", "StartTag"}
      THEN NewObject(w, elt.tag)
    ELSE IF w.current_def # 0 THEN FeedCurrent(w, elt.tag)
    ELSE Unrecognized(w, elt.tag)
  ELSE FileIndexAppend(w, elt)

\* The body of ImportStream's loop for one element of TagStream.
LoopBody(w, elt) ==
  IF elt.k = "tag" THEN
    IF elt.tag.cls = OBJECT THEN SwitchType(w, elt.tag)
    ELSE IF w.current_type # None /\ IsInstance(elt.tag, START_TAGS(w.current_type))
      THEN NewObject(w, elt.tag)
    ELSE IF w.current_def # 0 THEN FeedCurrent(w, elt.tag)
    ELSE Unrecognized(w, elt.tag)
  ELSE FileIndexAppend(w, elt)

\* One element yielded to whoever iterates the stream.
Consume(w, elt) ==
  LET w1 == [w EXCEPT !.emitted = Append(@, elt)] IN
    IF w.consumer = "ImportStream" THEN LoopBody(w1, elt) ELSE w1

RECURSIVE ConsumeAll(_, _)
ConsumeAll(w, elts) ==
  IF elts = <<>> \/ Failed(w) THEN w ELSE ConsumeAll(Consume(w, elts[1]), Tail(elts))

\* One turn of Parser.Parse's loop: count the character, run the state's
\* handler, yield its results.
ParseChar(w, c) ==
  LET counted == [w EXCEPT !.parser.counts = IF c = "\n" THEN @ + 1 ELSE @,
                           !.stream = Append(@, c),
                           !.results = <<>>]
      handled == Dispatch(counted, c)
  IN  IF Failed(handled) THEN handled ELSE ConsumeAll(handled, handled.results)

RECURSIVE Parse(_, _)
\* Parser.Parse over a piece of text.
Parse(w, text) ==
  IF text = <<>> \/ Failed(w) THEN w ELSE Parse(ParseChar(w, text[1]), Tail(text))

\* Parser.Parse after its loop: an open tag is a ParseError (in df_syntax the
\* name ParseError is not defined: a NameError); a pending comment is yielded.
ParseEnd(w) ==
  IF w.parser.tag # <<>> THEN
    IF w.module = "config_file"
      THEN Raise(w, FileLineError("ParseError", w.filename, w.parser.tag_start))
      ELSE Raise(w, PythonError("NameError"))
  ELSE IF w.parser.comment # <<>> THEN Consume(w, ToplevelComment(w.parser.comment))
  ELSE w

\* ImportStream before its loop: the locals, the file's empty element list, and
\* a new TagStream on the stream.
StartImport(w, f) ==
  [w EXCEPT !.toplevel = (f :> <<>>) @@ w.toplevel,
            !.parser = NewParser,
            !.current_def = 0,
            !.current_type = None,
            !.current_typename = Symbol(<<>>),
            !.filename = f,
            !.stream = <<>>,
            !.emitted = <<>>,
            !.raised = NoError]

\* DFConfig.ImportStream(f, stream) on a stream that holds text, as a whole.
ImportText(w, f, text) ==
  LET read == Parse(StartImport(w, f), text) IN
    IF Failed(read) THEN read ELSE ParseEnd(read)

\* DFConfig(name): no objects, no files.  The registries are the process's.
NewDFConfig(w) == [w EXCEPT !.heap = <<>>, !.objects = <<>>, !.toplevel = <<>>]

\* DFConfig.Render(filename)
Render(tl, hp, f) ==
  Flatten([i \in 1..Len(tl[f]) |->
             IF tl[f][i].k = "tag" THEN TagRender(tl[f][i].tag)
             ELSE IF tl[f][i].k = "obj" THEN DFObjectRender(hp[tl[f][i].ref])
             ELSE tl[f][i].text])

\* The orders in which a dict may iterate over the keys S.
Orders(S) ==
  {o \in [1..Cardinality(S) -> S] : \A i, j \in 1..Cardinality(S) : o[i] = o[j] => i = j}

\* DFConfig.Validate over one file's elements: a tag's Validate, a record's
\* Validate, a ToplevelComment's Validate (which passes).
ValidateFile(elts, hp) ==
  FirstError([i \in 1..Len(elts) |->
                IF elts[i].k = "tag" THEN TagValidate(elts[i].tag)
                ELSE IF elts[i].k = "obj" THEN DFObjectValidate(hp[elts[i].ref])
                ELSE NoError])

\* DFConfig.Validate: the files in the order of self.toplevel.itervalues(); the
\* first exception ends the call.
DFConfigValidate(tl, hp, order) ==
  FirstError([i \in 1..Len(order) |-> ValidateFile(tl[order[i]], hp)])

\* ---------------------------------------------------------------- inputs

Files == {"f1", "f2"}

\* The characters of a tokenizer-only run.
Chars == {<<"[">>, <<"]">>, <<":">>, <<"\n">>, <<"x">>}

\* '[' name ':' argument ']'
Piece(name, arg) == <<"[", name, ":">> \o arg \o <<"]">>

\* The pieces of the files an import reads: a comment line break, object
\* switches to a declared type, to an undeclared type that is also the name of a
\* declared start tag, and to a number; start tags with a symbol and with a
\* zero-padded number as identifier; a tag no class is registered for.
Pieces ==
  {<<"\n">>,
   Piece("OBJECT", <<"DESCRIPTOR">>),
   Piece("OBJECT", <<"COLOR">>),
   Piece("OBJECT", <<"7">>),
   Piece("COLOR", <<"A">>),
   Piece("COLOR", <<"0", "7">>),
   Piece("SHAPE", <<"A">>),
   Piece("NAME", <<"7">>)}

\* The pieces of BODY files: the object switch, start tags of two, three and
\* one token, the subsection tag BP, a tag no class is registered for, and a
\* start tag of another object type with three tokens.
BodyPieces ==
  {Piece("OBJECT", <<"BODY">>),
   Piece("BODY", <<"A">>),
   Piece("BODY", <<"A", ":", "B">>),
   <<"[", "BODY", "]">>,
   Piece("BP", <<"x">>),
   Piece("NAME", <<"7">>),
   Piece("COLOR", <<"A", ":", "B">>)}

\* The pieces of files of the declared type STRICT and of the tolerant type
\* DESCRIPTOR: the object switches, their start tags, the declared tag T, the
\* subsection tag SEC, a tag no class is registered for, and a line break.
StrictPieces ==
  {<<"\n">>,
   Piece("OBJECT", <<"STRICT">>),
   Piece("OBJECT", <<"DESCRIPTOR">>),
   Piece("S", <<"A">>),
   Piece("COLOR", <<"A">>),
   Piece("T", <<"x">>),
   Piece("SEC", <<"x">>),
   Piece("NAME", <<"7">>)}

\* ---------------------------------------------------------------- actions

\* DFConfig.Validate has not been called.
NotValidated == [called |-> FALSE, raised |-> NoError]

\* The state after a step that left the world as w.  Once ImportStream has
\* returned or raised, its locals keep the values they had at that point.
Becomes(w, next_pc) ==
  /\ TAG' = w.TAG
  /\ DF_OBJECT_REGISTRY' = w.DF_OBJECT_REGISTRY
  /\ heap' = w.heap
  /\ objects' = w.objects
  /\ toplevel' = w.toplevel
  /\ parser' = w.parser
  /\ current_def' = w.current_def
  /\ current_type' = w.current_type
  /\ current_typename' = w.current_typename
  /\ filename' = w.filename
  /\ stream' = w.stream
  /\ emitted' = w.emitted
  /\ raised' = w.raised
  /\ pc' = next_pc
  /\ validated' = NotValidated
  /\ UNCHANGED <<module, consumer, alphabet>>

\* DFConfig.ImportStream(f, stream), up to its loop: the file's element list is
\* made empty and TagStream is started on the stream.
ImportStream(f) ==
  /\ consumer = "ImportStream"
  /\ pc # "reading"
  /\ imports < MaxImports
  /\ imports' = imports + 1
  /\ nread' = nread
  /\ Becomes(StartImport(World, f), "reading")

\* The stream delivers its next piece of text: Parser.Parse reads it character
\* by character, and each tag it yields goes through the consumer's loop body.
Read(text) ==
  /\ pc = "reading"
  /\ nread < (IF consumer = "list" THEN MaxChars ELSE MaxChunks)
  /\ nread' = nread + 1
  /\ imports' = imports
  /\ LET w == Parse(World, text) IN
       Becomes(w, IF Failed(w) THEN "raised" ELSE "reading")

\* The stream is exhausted: Parser.Parse leaves its loop, and the consumer's
\* loop ends with it.
EndOfStream ==
  /\ pc = "reading"
  /\ UNCHANGED <<nread, imports>>
  /\ LET w == ParseEnd(World) IN
       Becomes(w, IF Failed(w) THEN "raised" ELSE "returned")

\* DFConfig.Validate(), called between imports: it returns, or raises the
\* first InvalidTag it comes to.
Validate ==
  /\ consumer = "ImportStream"
  /\ pc \in {"returned", "raised"}
  /\ ~validated.called
  /\ \E order \in Orders(DOMAIN toplevel) :
       validated' = [called |-> TRUE, raised |-> DFConfigValidate(toplevel, heap, order)]
  /\ UNCHANGED <<TAG, DF_OBJECT_REGISTRY, heap, objects, toplevel, parser, current_def,
                 current_type, current_typename, filename, stream, emitted, raised, pc,
                 module, consumer, alphabet, nread, imports>>

\* The pieces of files that make an import fail in each of its ways: an
\* unclosed '[', and the switch, start tag and unregistered tag of STRICT files.
FailPieces ==
  {<<"[">>,
   Piece("OBJECT", <<"STRICT">>),
   Piece("S", <<"A">>),
   Piece("T", <<"x">>),
   Piece("NAME", <<"7">>)}

\* The pieces of DESCRIPTOR files whose identifiers are numbers written in
\* several ways, and a symbol.
IdPieces ==
  {Piece("OBJECT", <<"DESCRIPTOR">>),
   Piece("COLOR", <<"7">>),
   Piece("COLOR", <<"0", "0", "7">>),
   Piece("COLOR", <<"1">>),
   Piece("COLOR", <<"1", ".", "0">>),
   Piece("SHAPE", <<"7">>),
   Piece("COLOR", <<"A">>)}

\* What a program that builds a LOOSE record itself passes to AppendTag: a tag
\* no class is registered for, the tag of the subsection PART, and an instance
\* of the subsection class made from such a tag.
ApiArguments ==
  {Tag(TagClass, << <<"NAME">>, <<"7">> >>),
   Tag(SectionTag("PART"), << <<"PART">>, <<"x">> >>),
   DFObject(SECTION("PART"), Tag(SectionTag("PART"), << <<"PART">>, <<"x">> >>))}

\* record.AppendTag(x), called by the program on the record it built; nread
\* counts the calls.
AppendTagCall(x) ==
  /\ consumer = "AppendTag"
  /\ pc # "raised"
  /\ nread < MaxCalls
  /\ nread' = nread + 1
  /\ LET out == AppendTag(heap[1], x) IN
       /\ heap' = [heap EXCEPT ![1] = out.self]
       /\ raised' = out.raised
       /\ pc' = IF out.raised # NoError THEN "raised" ELSE "returned"
  /\ UNCHANGED <<TAG, DF_OBJECT_REGISTRY, objects, toplevel, parser, current_def,
                 current_type, current_typename, filename, stream, emitted,
                 module, consumer, alphabet, imports, validated>>

\* ---------------------------------------------------------- specifications

\* A DFConfig, its registries and its reader before anything is read.
InitDocument ==
  /\ heap = <<>>
  /\ objects = <<>>
  /\ toplevel = <<>>
  /\ parser = NewParser
  /\ current_def = 0
  /\ current_type = None
  /\ current_typename = Symbol(<<>>)
  /\ stream = <<>>
  /\ emitted = <<>>
  /\ raised = NoError
  /\ nread = 0
  /\ imports = 0
  /\ validated = NotValidated

\* The process after loading the module.
InitProcess ==
  /\ TAG = <<>>
  /\ DF_OBJECT_REGISTRY = <<>>
  /\ InitDocument

\* A DFConfig before its first import.
Init ==
  /\ InitProcess
  /\ filename = NoFile
  /\ pc = "idle"
  /\ module = "config_file"
  /\ consumer = "ImportStream"
  /\ alphabet = Pieces

Next ==
  \/ \E f \in Files : ImportStream(f)
  \/ \E text \in alphabet : Read(text)
  \/ EndOfStream

Spec == Init /\ [][Next]_vars

\* A DFConfig that reads BODY files and is validated between imports.
InitBody ==
  /\ InitProcess
  /\ filename = NoFile
  /\ pc = "idle"
  /\ module = "config_file"
  /\ consumer = "ImportStream"
  /\ alphabet = BodyPieces

NextBody ==
  \/ \E f \in Files : ImportStream(f)
  \/ \E text \in alphabet : Read(text)
  \/ EndOfStream
  \/ Validate

SpecBody == InitBody /\ [][NextBody]_vars

\* A DFConfig in a process that has declared the object type STRICT.
InitStrict ==
  /\ TAG = CallerTAG
  /\ DF_OBJECT_REGISTRY = CallerRegistry
  /\ InitDocument
  /\ filename = NoFile
  /\ pc = "idle"
  /\ module = "config_file"
  /\ consumer = "ImportStream"
  /\ alphabet = StrictPieces

NextStrict ==
  \/ \E f \in Files : ImportStream(f)
  \/ \E text \in alphabet : Read(text)
  \/ EndOfStream

SpecStrict == InitStrict /\ [][NextStrict]_vars

\* A DFConfig that reads files which fail, in a process that has declared STRICT.
InitFail ==
  /\ TAG = CallerTAG
  /\ DF_OBJECT_REGISTRY = CallerRegistry
  /\ InitDocument
  /\ filename = NoFile
  /\ pc = "idle"
  /\ module = "config_file"
  /\ consumer = "ImportStream"
  /\ alphabet = FailPieces

NextFail ==
  \/ \E f \in Files : ImportStream(f)
  \/ \E text \in alphabet : Read(text)
  \/ EndOfStream

SpecFail == InitFail /\ [][NextFail]_vars

\* A DFConfig that reads DESCRIPTOR files with numeric identifiers.
InitIds ==
  /\ InitProcess
  /\ filename = NoFile
  /\ pc = "idle"
  /\ module = "config_file"
  /\ consumer = "ImportStream"
  /\ alphabet = IdPieces

NextIds ==
  \/ \E f \in Files : ImportStream(f)
  \/ \E text \in alphabet : Read(text)
  \/ EndOfStream

SpecIds == InitIds /\ [][NextIds]_vars

\* A LOOSE record that the program has made from a start tag, before its
\* first AppendTag.
InitSection ==
  /\ TAG = CallerTAG
  /\ DF_OBJECT_REGISTRY = CallerRegistry
  /\ heap = <<DFObject(DF_OBJECT("LOOSE"), Tag(START_TAG("L"), << <<"L">>, <<"A">> >>))>>
  /\ objects = <<>>
  /\ toplevel = <<>>
  /\ parser = NewParser
  /\ current_def = 0
  /\ current_type = None
  /\ current_typename = Symbol(<<>>)
  /\ stream = <<>>
  /\ emitted = <<>>
  /\ raised = NoError
  /\ nread = 0
  /\ imports = 0
  /\ validated = NotValidated
  /\ filename = NoFile
  /\ pc = "idle"
  /\ module = "config_file"
  /\ consumer = "AppendTag"
  /\ alphabet = {}

NextSection == \E x \in ApiArguments : AppendTagCall(x)

SpecSection == InitSection /\ [][NextSection]_vars

\* TagStream of either module, iterated by itself over a stream of characters.
InitLex ==
  /\ InitProcess
  /\ filename = "f1"
  /\ pc = "reading"
  /\ module \in {"config_file", "df_syntax"}
  /\ consumer = "list"
  /\ alphabet = Chars

NextLex ==
  \/ \E text \in alphabet : Read(text)
  \/ EndOfStream

SpecLex == InitLex /\ [][NextLex]_vars

\* ----------------------------------------------------------------- claims

\* The tag elements among what the stream has yielded.
IsTagAt(i) == emitted[i].k = "tag"

\* Every token of the tag prints back as it was written.
Canonical(tag) == \A i \in 1..Len(tag.raw) : Str(tag.tokens[i]) = tag.raw[i]

\* The tag as the source wrote it: its comment, then its raw tokens joined by
\* ':' in brackets.
Written(tag) == tag.comment \o <<"[">> \o Join(":", tag.raw) \o <<"]">>

\* No token of the tag is a floating-point number.
NoFloat(tag) == \A i \in 1..Len(tag.tokens) : tag.tokens[i].k # "float"

\* C1: when ImportStream(filename, stream) has returned, Render(filename) is
\* exactly the text of the stream, for every stream none of whose tokens is a
\* floating-point number.
C1_RoundTrip ==
  (/\ consumer = "ImportStream"
   /\ pc = "returned"
   /\ \A i \in 1..Len(emitted) : IsTagAt(i) => NoFloat(emitted[i].tag))
  => Render(toplevel, heap, filename) = stream

\* What does hold of the round trip: Render(filename) is the text of the
\* stream when every token of the stream prints back as it was written.
RoundTripOfCanonicalText ==
  (/\ consumer = "ImportStream"
   /\ pc = "returned"
   /\ \A i \in 1..Len(emitted) : IsTagAt(i) => Canonical(emitted[i].tag))
  => Render(toplevel, heap, filename) = stream

\* C2: every tag yielded renders each of its tokens exactly as the source wrote
\* it: str(ParseToken(t)) = t.
C2_TokenTextPreserved ==
  \A i \in 1..Len(emitted) : IsTagAt(i) => TagRender(emitted[i].tag) = Written(emitted[i].tag)

\* C3: when an import has returned, importing the rendered text into a new
\* DFConfig succeeds and renders to the same text.
C3_IdempotentReparse ==
  (consumer = "ImportStream" /\ pc = "returned") =>
    LET first == Render(toplevel, heap, filename)
        again == ImportText(NewDFConfig(World), filename, first)
    IN  /\ ~Failed(again)
        /\ Render(again.toplevel, again.heap, filename) = first

\* The index key of a record: its type's name, its start tag's first token
\* (the subtype) and second token (the identifier).
KeyOf(rec) == <<rec.cls[2], Key(rec.typetag.tokens[1]), Key(rec.typetag.tokens[2])>>

\* The key under which the start tag would be indexed now.
KeyNow(tag) == <<Key(current_typename), Key(tag.tokens[1]), Key(tag.tokens[2])>>

\* No two records made by this DFConfig have the same key.
UniqueKeys ==
  \A r1, r2 \in 1..Len(heap) : KeyOf(heap[r1]) = KeyOf(heap[r2]) => r1 = r2

\* The stream yields the tag in this step, a start tag of the current type
\* whose key is in the index.
DuplicateArrives(tag) ==
  /\ consumer = "ImportStream"
  /\ pc = "reading"
  /\ emitted' = Append(emitted, TagElt(tag))
  /\ current_type # None
  /\ IsInstance(tag, START_TAGS(current_type))
  /\ Len(tag.tokens) >= 2
  /\ KeyNow(tag) \in DOMAIN objects

\* ImportStream raises DuplicateDefinition at the tag, naming the record that
\* holds the key, and leaves the index and the element lists as they were.
DuplicateRefused(tag) ==
  /\ pc' = "raised"
  /\ raised' = [type |-> "DuplicateDefinition",
                filename |-> filename,
                linenum |-> tag.start_line,
                other_filename |-> heap[objects[KeyNow(tag)]].typetag.filename,
                other_line |-> heap[objects[KeyNow(tag)]].typetag.start_line]
  /\ tag.filename = filename
  /\ objects' = objects
  /\ heap' = heap
  /\ toplevel' = toplevel

\* C4: no two records share (object type, subtype, identifier), over any
\* sequence of imports; and a start tag whose key is in the index makes
\* ImportStream raise DuplicateDefinition with the new tag's filename and line
\* and the first record's filename and line, the index and the file's element
\* list unchanged.
C4_IdentifierUniqueness ==
  /\ []UniqueKeys
  /\ [][\A i \in 1..Len(emitted') :
          (IsTagAt(i)' /\ DuplicateArrives(emitted'[i].tag)) => DuplicateRefused(emitted'[i].tag)]_vars

\* A DuplicateDefinition raised in one file for a record of another file.
C4_Witness ==
  /\ pc = "raised"
  /\ raised.type = "DuplicateDefinition"
  /\ raised.other_filename # raised.filename
  /\ raised.other_filename \in Files
  /\ \E r \in 1..Len(heap) :
       /\ KeyOf(heap[r]) = KeyNow(Last(emitted).tag)
       /\ heap[r].typetag.filename = raised.other_filename

\* C5: every record is retrievable under its own (type, subtype, identifier),
\* and DuplicateDefinition is raised only at a start tag whose type, subtype
\* and identifier are all those of an indexed record: the same identifier under
\* another subtype or another type is no duplicate.
C5_ReuseAcrossSubtypes ==
  /\ \A r \in 1..Len(heap) :
       KeyOf(heap[r]) \in DOMAIN objects /\ objects[KeyOf(heap[r])] = r
  /\ raised.type = "DuplicateDefinition" =>
       /\ Last(emitted).k = "tag"
       /\ \E r \in 1..Len(heap) :
            /\ KeyOf(heap[r]) = KeyNow(Last(emitted).tag)
            /\ heap[r].cls = current_type
            /\ heap[r].typetag.cls = Last(emitted).tag.cls

\* An import returned with one identifier in three records: two subtypes of
\* one type, and another type.
C5_Witness ==
  /\ pc = "returned"
  /\ \E r1, r2, r3 \in 1..Len(heap) :
       /\ KeyOf(heap[r1])[3] = KeyOf(heap[r2])[3]
       /\ KeyOf(heap[r1])[1] = KeyOf(heap[r2])[1]
       /\ KeyOf(heap[r1])[2] # KeyOf(heap[r2])[2]
       /\ KeyOf(heap[r3])[3] = KeyOf(heap[r1])[3]
       /\ KeyOf(heap[r3])[1] # KeyOf(heap[r1])[1]
       /\ \A r \in {r1, r2, r3} : objects[KeyOf(heap[r])] = r

\* The construction of an [OBJECT:X] tag failed while declaring X.
DeclarationFailed ==
  /\ pc = "raised"
  /\ parser.state = "STATE_TAG"
  /\ Last(stream) = "]"
  /\ Len(parser.tag) >= 2
  /\ parser.tag[1] = <<"OBJECT">>

\* C6: an [OBJECT:X] tag with X unregistered does not make the import fail; X
\* gets a descriptor whose only start tag is named X, and a record opened by
\* [X:Id] under it is retrievable at (X, X, Id).
C6_GenericObjectFallback ==
  /\ ~DeclarationFailed
  /\ \A x \in DOMAIN DF_OBJECT_REGISTRY :
       START_TAGS(DF_OBJECT_REGISTRY[x]) = {TAG[x]}
  /\ \A r \in 1..Len(heap) :
       heap[r].cls[1] = "_Object" =>
         /\ KeyOf(heap[r])[1] = heap[r].cls[2]
         /\ KeyOf(heap[r])[2] = heap[r].cls[2]
         /\ KeyOf(heap[r]) \in DOMAIN objects
         /\ objects[KeyOf(heap[r])] = r

\* C7: a tag that is no object switch, yielded before any [OBJECT:...] tag of
\* this import, makes ImportStream raise UnknownToplevelTag with that tag's
\* filename and start line.
C7_UnknownToplevelTag ==
  (/\ consumer = "ImportStream"
   /\ emitted # <<>>
   /\ Last(emitted).k = "tag"
   /\ \A i \in 1..Len(emitted) : IsTagAt(i) => emitted[i].tag.cls # OBJECT)
  => /\ pc = "raised"
     /\ raised = TagError("UnknownToplevelTag", Last(emitted).tag)

\* C8: when the stream ends inside a tag, TagStream raises ParseError at the
\* start line of that tag, having yielded the tags completed before and
\* yielding nothing more.
C8_UnterminatedTag ==
  [][(pc = "reading" /\ stream' = stream /\ pc' # "reading" /\ parser.state = "STATE_TAG")
       => /\ pc' = "raised"
          /\ raised' = FileLineError("ParseError", filename, parser.tag_start)
          /\ emitted' = emitted]_vars

\* C9: a '[' read inside a tag raises ParseError at the start line of the open
\* tag, and the open tag is not yielded.
C9_NestedOpenBracket ==
  [][(pc = "reading" /\ parser.state = "STATE_TAG" /\ stream' = Append(stream, "["))
       => /\ pc' = "raised"
          /\ raised' = FileLineError("ParseError", filename, parser.tag_start)
          /\ emitted' = emitted]_vars

\* A ParseError for a '[' that came lines after the '[' of the open tag.
C9_Witness ==
  /\ pc = "raised"
  /\ raised.type = "ParseError"
  /\ Last(stream) = "["
  /\ parser.state = "STATE_TAG"
  /\ CurrentLine(parser) > raised.linenum
  /\ emitted # <<>>

\* The positions of '[' in the stream, and the position of the n-th.
Opens == {p \in 1..Len(stream) : stream[p] = "["}
OpenAt(n) == CHOOSE p \in Opens : Cardinality({q \in Opens : q <= p}) = n

\* The newlines of the stream before position p.
NewlinesBefore(p) == Cardinality({q \in 1..(p - 1) : stream[q] = "\n"})

\* The number of tags among the first i elements yielded.
TagsUpTo(i) == Cardinality({j \in 1..i : IsTagAt(j)})

\* C10: the start_line of every tag yielded is 1 plus the number of newlines
\* of the stream before the tag's '[', and the start lines of successive tags
\* do not decrease.
C10_LineTracking ==
  \A i \in 1..Len(emitted) :
    IsTagAt(i) =>
      /\ emitted[i].tag.start_line = 1 + NewlinesBefore(OpenAt(TagsUpTo(i)))
      /\ \A j \in 1..i : IsTagAt(j) => emitted[j].tag.start_line <= emitted[i].tag.start_line

\* Two tags yielded, the second on line 3: a newline inside the first tag and
\* a newline in the comment between them.
C10_Witness ==
  /\ Len(emitted) = 2
  /\ IsTagAt(1) /\ IsTagAt(2)
  /\ emitted[1].tag.start_line = 1
  /\ emitted[2].tag.start_line = 3
  /\ emitted[2].tag.comment = <<"\n">>
  /\ \E q \in (OpenAt(1) + 1)..(OpenAt(2) - 1) :
       stream[q] = "\n" /\ \A p \in 1..q : stream[p] # "]"

\* The token count of the tag is outside the bounds its class declares.
ArityViolated(tag) ==
  \/ MAX_TOKENS(tag.cls) # 0 /\ Len(tag.tokens) > MAX_TOKENS(tag.cls)
  \/ MIN_TOKENS(tag.cls) # 0 /\ Len(tag.tokens) < MIN_TOKENS(tag.cls)

\* C11: a tag of a kind that declares MIN_TOKENS = 2 and MAX_TOKENS = 2 is
\* constructed only with exactly two tokens: the stream yields no tag of such a
\* kind with one or three tokens, its construction having raised InvalidTag.
C11_ArityEnforcement ==
  \A i \in 1..Len(emitted) :
    (IsTagAt(i) /\ MIN_TOKENS(emitted[i].tag.cls) = 2 /\ MAX_TOKENS(emitted[i].tag.cls) = 2)
      => Len(emitted[i].tag.tokens) = 2

\* The tags the document holds: the tags of the files' element lists, and the
\* start tag and the member tags of the records of those lists.
HeldTags ==
  UNION {UNION {IF toplevel[f][i].k = "tag" THEN {toplevel[f][i].tag}
                ELSE IF toplevel[f][i].k = "obj"
                  THEN {heap[toplevel[f][i].ref].typetag}
                       \cup {heap[toplevel[f][i].ref].tags[j] :
                               j \in 1..Len(heap[toplevel[f][i].ref].tags)}
                ELSE {} : i \in 1..Len(toplevel[f])} : f \in DOMAIN toplevel}

\* C12: DFConfig.Validate reports a violation exactly when some tag the
\* document holds (an object switch, a record's start tag, a record's member
\* tag) has a token count outside the bounds of its kind.
C12_ValidateRechecksEveryTag ==
  validated.called =>
    (validated.raised.type = "InvalidTag" <=> \E tag \in HeldTags : ArityViolated(tag))

\* The descriptor accepts the tag by its own grammar: one of its TAGS or
\* SUBSECTION_TAGS, or any tag when it tolerates unknown tags.
Accepts(cls, tag) ==
  \/ IsInstance(tag, TAGS(cls) \cup SUBSECTION_TAGS(cls))
  \/ ALLOW_UNKNOWN_TAGS(cls)

\* C14: a subsection-opening tag that arrives for an open record makes a
\* nested subsection record in the record's member list: the member list holds
\* no subsection-opening tag as a plain member, and no tag that the subsection
\* accepts directly after one.
C14_SubsectionOpening ==
  \A r \in 1..Len(heap) :
    \A j \in 1..Len(heap[r].tags) :
      /\ ~IsInstance(heap[r].tags[j], SUBSECTION_TAGS(heap[r].cls))
      /\ j > 1 =>
           ~(/\ IsInstance(heap[r].tags[j - 1], SUBSECTION_TAGS(heap[r].cls))
             /\ Accepts(SECTION(heap[r].tags[j - 1].cls[2]), heap[r].tags[j]))

\* The n-th smallest member of a set of numbers.
Nth(S, n) == CHOOSE p \in S : Cardinality({q \in S : q <= p}) = n

\* Greatest and least member of a non-empty set of numbers.
Max(S) == CHOOSE p \in S : \A q \in S : q <= p
Min(S) == CHOOSE p \in S : \A q \in S : p <= q

\* Among what the stream has yielded: the object switches, the switch in force
\* at position i (0: none), the object type it selects, the start tags of the
\* type in force, and where the run of tags after position i ends.
IsSwitchAt(i) == IsTagAt(i) /\ emitted[i].tag.cls = OBJECT

SwitchBefore(i) ==
  IF \E j \in 1..(i - 1) : IsSwitchAt(j) THEN Max({j \in 1..(i - 1) : IsSwitchAt(j)}) ELSE 0

TypeNameAt(i) == emitted[SwitchBefore(i)].tag.tokens[2]

TypeAt(i) == ObjectRegistry(DF_OBJECT_REGISTRY)[Key(TypeNameAt(i))]

IsStartAt(i) ==
  /\ IsTagAt(i)
  /\ ~IsSwitchAt(i)
  /\ SwitchBefore(i) # 0
  /\ IsInstance(emitted[i].tag, START_TAGS(TypeAt(i)))

StartsAt == {i \in 1..Len(emitted) : IsStartAt(i)}

RunEnd(i) ==
  Min({j \in (i + 1)..Len(emitted) : ~IsTagAt(j) \/ IsSwitchAt(j) \/ IsStartAt(j)}
      \cup {Len(emitted) + 1})

\* The tags that follow the start tag at position i, up to the next start tag
\* of the type in force, the next object switch or the end.
MembersOf(i) == [j \in 1..(RunEnd(i) - i - 1) |-> emitted[i + j].tag]

IsRecord(elt) == elt.k = "obj"

\* The records of a file's element list, in order.
Records(f) == SelectSeq(toplevel[f], IsRecord)

\* C13: while an import runs and when it has returned, the records of the
\* file's element list are, in order, one for each start tag of the object type
\* in force that the stream has yielded; each is indexed under (object type,
\* kind name of the tag, identifier token), has that tag as its start tag, and
\* has as members exactly the tags that follow it up to the next start tag of
\* the type, the next object switch or the end, in order.
C13_RecordAssembly ==
  (consumer = "ImportStream" /\ pc \in {"reading", "returned"}) =>
    /\ Len(Records(filename)) = Cardinality(StartsAt)
    /\ \A n \in 1..Len(Records(filename)) :
         LET ref == Records(filename)[n].ref
             i == Nth(StartsAt, n)
             key == <<Key(TypeNameAt(i)), emitted[i].tag.cls[2], Key(emitted[i].tag.tokens[2])>>
         IN  /\ heap[ref].typetag = emitted[i].tag
             /\ heap[ref].tags = MembersOf(i)
             /\ key \in DOMAIN objects
             /\ objects[key] = ref

\* An import returned with two records in the file, each with a member tag.
C13_Witness ==
  /\ consumer = "ImportStream"
  /\ pc = "returned"
  /\ Len(Records(filename)) = 2
  /\ \A n \in 1..2 : heap[Records(filename)[n].ref].tags # <<>>
  /\ heap[Records(filename)[1].ref].tags = MembersOf(Nth(StartsAt, 1))

\* The object switch in force at position p of a file's element list (0: none).
SwitchInList(elts, p) ==
  IF \E q \in 1..(p - 1) : elts[q].k = "tag" /\ elts[q].tag.cls = OBJECT
    THEN Max({q \in 1..(p - 1) : elts[q].k = "tag" /\ elts[q].tag.cls = OBJECT})
    ELSE 0

\* The key of the record at position p of a file's element list: the type of
\* the object switch in force, and the first two tokens of its start tag.
KeyInList(elts, p) ==
  <<Key(elts[SwitchInList(elts, p)].tag.tokens[2]),
    Key(heap[elts[p].ref].typetag.tokens[1]),
    Key(heap[elts[p].ref].typetag.tokens[2])>>

\* C16: when ImportStream has returned, every record of the file's element
\* list, the last one included, is what the index holds at the record's
\* (object type, subtype, identifier).
C16_LookupCompleteness ==
  (consumer = "ImportStream" /\ pc = "returned") =>
    \A p \in 1..Len(toplevel[filename]) :
      IsRecord(toplevel[filename][p]) =>
        /\ KeyInList(toplevel[filename], p) \in DOMAIN objects
        /\ objects[KeyInList(toplevel[filename], p)] = toplevel[filename][p].ref

\* An import returned whose last element is a record with a member, ended by
\* the end of the stream, after an earlier record.
C16_Witness ==
  /\ consumer = "ImportStream"
  /\ pc = "returned"
  /\ Len(Records(filename)) >= 2
  /\ IsRecord(Last(toplevel[filename]))
  /\ heap[Last(toplevel[filename]).ref].tags # <<>>
  /\ objects[KeyInList(toplevel[filename], Len(toplevel[filename]))]
       = Last(toplevel[filename]).ref

\* The tag is of a start-tag kind, and not of a start-tag kind of the object
\* type in force.
OtherTypeStartTag(tag) ==
  /\ tag.cls[1] \in {"START_TAG", "StartTag"}
  /\ current_type # None
  /\ ~IsInstance(tag, START_TAGS(current_type))

\* C19: a start tag of another object type than the one in force opens no
\* record and leaves the index alone: with a record open it becomes the
\* record's next member; with none open ImportStream raises UnknownToplevelTag
\* at the tag.
C19_StartTagsAreRelative ==
  [][(/\ consumer = "ImportStream"
      /\ pc = "reading"
      /\ Len(emitted') = Len(emitted) + 1
      /\ Last(emitted').k = "tag"
      /\ OtherTypeStartTag(Last(emitted').tag))
     => /\ objects' = objects
        /\ Len(heap') = Len(heap)
        /\ toplevel' = toplevel
        /\ IF current_def # 0
             THEN /\ pc' = "reading"
                  /\ heap' = [heap EXCEPT ![current_def].tags = Append(@, Last(emitted').tag)]
             ELSE /\ pc' = "raised"
                  /\ raised' = TagError("UnknownToplevelTag", Last(emitted').tag)
                  /\ heap' = heap]_vars

\* A start tag of another type was refused with no record open, in a document
\* where an earlier import had one appended to an open record.
C19_Witness ==
  /\ pc = "raised"
  /\ raised.type = "UnknownToplevelTag"
  /\ OtherTypeStartTag(Last(emitted).tag)
  /\ current_def = 0
  /\ \E r \in 1..Len(heap) : \E j \in 1..Len(heap[r].tags) :
       /\ heap[r].tags[j].cls[1] \in {"START_TAG", "StartTag"}
       /\ ~IsInstance(heap[r].tags[j], START_TAGS(heap[r].cls))

\* The tag is neither an object switch nor a start tag of the type in force.
OrdinaryTag(tag) ==
  /\ tag.cls # OBJECT
  /\ ~(current_type # None /\ IsInstance(tag, START_TAGS(current_type)))

\* C20: while a record is open, a tag that is neither an object switch nor a
\* start tag of the type in force is appended to the record, and nothing is
\* raised, when the record's descriptor has ALLOW_UNKNOWN_TAGS true; when it
\* has it false and the tag is not of its TAGS or SUBSECTION_TAGS, DisallowedTag
\* is raised with the tag's file name and line and the record's members stay
\* as they were.
C20_TolerancePolicy ==
  [][(/\ consumer = "ImportStream"
      /\ pc = "reading"
      /\ current_def # 0
      /\ Len(emitted') = Len(emitted) + 1
      /\ Last(emitted').k = "tag"
      /\ OrdinaryTag(Last(emitted').tag))
     => /\ ALLOW_UNKNOWN_TAGS(heap[current_def].cls) =>
             /\ pc' = "reading"
             /\ raised' = NoError
             /\ heap' = [heap EXCEPT ![current_def].tags = Append(@, Last(emitted').tag)]
        /\ (/\ ~ALLOW_UNKNOWN_TAGS(heap[current_def].cls)
            /\ ~IsInstance(Last(emitted').tag,
                           TAGS(heap[current_def].cls) \cup SUBSECTION_TAGS(heap[current_def].cls)))
             => /\ pc' = "raised"
                /\ raised'.type = "DisallowedTag"
                /\ raised'.filename = Last(emitted').tag.filename
                /\ raised'.linenum = Last(emitted').tag.start_line
                /\ heap' = heap]_vars

\* DisallowedTag was raised for a tag on the second line, by a record that
\* already had a member, in a document where a tolerant record took a tag no
\* class is registered for.
C20_Witness ==
  /\ pc = "raised"
  /\ raised.type = "DisallowedTag"
  /\ raised.linenum = 2
  /\ current_def # 0
  /\ ~ALLOW_UNKNOWN_TAGS(heap[current_def].cls)
  /\ heap[current_def].tags # <<>>
  /\ Last(emitted).tag.cls \notin TAGS(heap[current_def].cls) \cup SUBSECTION_TAGS(heap[current_def].cls)

\* A record of a tolerant descriptor holds a tag no class is registered for.
C20_TolerantWitness ==
  \E r \in 1..Len(heap) :
    /\ ALLOW_UNKNOWN_TAGS(heap[r].cls)
    /\ \E j \in 1..Len(heap[r].tags) : heap[r].tags[j].cls[1] = "Tag"

\* In the characters read: the ']' that closes the n-th tag, the end of the
\* last tag closed so far (0: none), the text read since, and whether a
\* position lies outside every tag's brackets.
CloseAt(n) == Min({p \in (OpenAt(n) + 1)..Len(stream) : stream[p] = "]"})

ClosedTags == TagsUpTo(Len(emitted))

LastClose == IF ClosedTags = 0 THEN 0 ELSE CloseAt(ClosedTags)

TextSinceLastClose == SubSeq(stream, LastClose + 1, Len(stream))

AtTopLevel(p) == ~\E n \in 1..ClosedTags : OpenAt(n) <= p /\ p <= CloseAt(n)

\* What an element of the stream stands for in the input.
WrittenElt(elt) == IF elt.k = "tag" THEN Written(elt.tag) ELSE elt.text

\* The comment text an element carries.
CommentOf(elt) == IF elt.k = "tag" THEN elt.tag.comment ELSE elt.text

Count(c, text) == Cardinality({p \in 1..Len(text) : text[p] = c})

\* C17: when TagStream has consumed its input without an error, the tags'
\* comment + '[' + raw tokens joined by ':' + ']' and the trailing
\* ToplevelComment's text, concatenated in the order yielded, are the input;
\* each tag has one token more than there are ':' between its brackets; and
\* the ']' and ':' outside brackets are all in the comment texts.
C17_TokenizerLossless ==
  (consumer = "list" /\ pc = "returned") =>
    /\ Flatten([i \in 1..Len(emitted) |-> WrittenElt(emitted[i])]) = stream
    /\ \A i \in 1..Len(emitted) :
         IsTagAt(i) =>
           Len(emitted[i].tag.raw) =
             1 + Cardinality({p \in OpenAt(TagsUpTo(i))..CloseAt(TagsUpTo(i)) : stream[p] = ":"})
    /\ \A c \in {"]", ":"} :
         Count(c, Flatten([i \in 1..Len(emitted) |-> CommentOf(emitted[i])]))
           = Cardinality({p \in 1..Len(stream) : stream[p] = c /\ AtTopLevel(p)})

\* TagStream returned a tag of two tokens whose comment has a ']' and a ':',
\* and a trailing ToplevelComment.
C17_Witness ==
  /\ consumer = "list"
  /\ pc = "returned"
  /\ Len(emitted) = 2
  /\ IsTagAt(1)
  /\ Len(emitted[1].tag.raw) = 2
  /\ Count("]", emitted[1].tag.comment) = 1
  /\ Count(":", emitted[1].tag.comment) = 1
  /\ emitted[2].k = "comment"

\* C18: the comment of each tag is the text between the previous tag's ']' (or
\* the start of the input) and the tag's '['; the pending buffer is that text
\* while it is being read and is empty after a tag is yielded; a ToplevelComment
\* is yielded at most once, as the last element, when TagStream returns, with
\* the text after the last ']' (the whole input if it has no tag), and exactly
\* when that text is not empty.
C18_CommentOwnership ==
  /\ [](consumer = "list" =>
          /\ \A i \in 1..Len(emitted) :
               IsTagAt(i) =>
                 emitted[i].tag.comment =
                   SubSeq(stream,
                          (IF TagsUpTo(i) = 1 THEN 0 ELSE CloseAt(TagsUpTo(i) - 1)) + 1,
                          OpenAt(TagsUpTo(i)) - 1)
          /\ \A i \in 1..Len(emitted) :
               ~IsTagAt(i) =>
                 /\ i = Len(emitted)
                 /\ pc = "returned"
                 /\ emitted[i].text = TextSinceLastClose
                 /\ emitted[i].text # <<>>
          /\ (pc = "returned" /\ TextSinceLastClose # <<>>) =>
               (emitted # <<>> /\ ~IsTagAt(Len(emitted)))
          /\ (pc = "reading" /\ parser.state = "STATE_TOPLEVEL") =>
               parser.comment = TextSinceLastClose)
  /\ [][(/\ consumer = "list"
         /\ Len(emitted') = Len(emitted) + 1
         /\ Last(emitted').k = "tag")
        => /\ Last(emitted').tag.comment = parser.comment
           /\ parser'.comment = <<>>]_vars

\* TagStream returned a tag with a comment, a tag right after it with an empty
\* comment, and a trailing ToplevelComment.
C18_Witness ==
  /\ consumer = "list"
  /\ pc = "returned"
  /\ Len(emitted) = 3
  /\ IsTagAt(1)
  /\ emitted[1].tag.comment # <<>>
  /\ IsTagAt(2)
  /\ emitted[2].tag.comment = <<>>
  /\ emitted[3].k = "comment"
  /\ emitted[3].text # <<>>

\* The record's last member is an instance of one of its subsection classes.
InSubsection(rec) == rec.tags # <<>> /\ IsInstance(Last(rec.tags), SUBSECTIONS(rec.cls))

\* C15: when the record's last member is a subsection and AppendTag is called
\* with a tag that the subsection does not accept, the tag is handled by the
\* record's own rule: appended to the record after the subsection, which stays
\* as it was, or refused with DisallowedTag when the record does not accept it
\* either.
C15_SubsectionFallback ==
  [][\A x \in ApiArguments :
       (/\ AppendTagCall(x)
        /\ InSubsection(heap[1])
        /\ "tokens" \in DOMAIN x
        /\ ~Accepts(Last(heap[1].tags).cls, x))
       => IF Accepts(heap[1].cls, x)
            THEN /\ raised' = NoError
                 /\ heap' = [heap EXCEPT ![1].tags = Append(@, x)]
            ELSE /\ raised' = TagError("DisallowedTag", x)
                 /\ heap' = heap]_vars

\* The exceptions of the module that end an import.
ImportErrors == {"ParseError", "UnknownToplevelTag", "DisallowedTag", "DuplicateDefinition"}

\* C21: the step on which ImportStream raises ParseError, UnknownToplevelTag,
\* DisallowedTag or DuplicateDefinition adds nothing to the file's element
\* list, to any record's members or to the index, and nothing is added after
\* it until the next import: nothing more is read from the stream.
C21_FailFast ==
  [][(/\ consumer = "ImportStream"
      /\ imports' = imports
      /\ \/ pc = "reading" /\ pc' = "raised" /\ raised'.type \in ImportErrors
         \/ pc = "raised" /\ raised.type \in ImportErrors)
     => /\ heap' = heap
        /\ objects' = objects
        /\ toplevel' = toplevel
        /\ pc = "raised" => stream' = stream]_vars

\* A second import, of another file, raised DuplicateDefinition after it had
\* added its object switch to its file; the record of the first import is the
\* only one made and indexed.
C21_Witness ==
  /\ consumer = "ImportStream"
  /\ pc = "raised"
  /\ raised.type = "DuplicateDefinition"
  /\ imports = 2
  /\ Len(toplevel[filename]) = 1
  /\ Len(heap) = 1
  /\ DOMAIN objects # {}
  /\ heap[1].typetag.filename # filename

\* Imports that raised each of the other three exceptions with records held.
C21_ParseErrorWitness ==
  pc = "raised" /\ raised.type = "ParseError" /\ Len(heap) = 1 /\ heap[1].tags # <<>>

C21_UnknownToplevelTagWitness ==
  pc = "raised" /\ raised.type = "UnknownToplevelTag" /\ Len(heap) = 1

C21_DisallowedTagWitness ==
  pc = "raised" /\ raised.type = "DisallowedTag" /\ Len(heap) = 1 /\ heap[1].tags # <<>>

\* C22: after every ImportStream call, returned or raised, every record that
\* the index holds is an element of the top-level list of the file its start
\* tag names.
C22_IndexWithinElementLists ==
  (consumer = "ImportStream" /\ pc \in {"returned", "raised"}) =>
    \A key \in DOMAIN objects :
      /\ heap[objects[key]].typetag.filename \in DOMAIN toplevel
      /\ \E p \in 1..Len(toplevel[heap[objects[key]].typetag.filename]) :
           toplevel[heap[objects[key]].typetag.filename][p] = ObjElt(objects[key])

\* The tag that NewTag makes for a first token is a start tag of the object
\* class, under given registries.
Recognizes(tags, cls, name) == name \in DOMAIN tags /\ tags[name] \in START_TAGS(cls)

\* C23: whatever object types have been synthesized, every object type that
\* loading the module registered is still registered to the same class, and
\* recognizes as start tags the tags of exactly the same first tokens as it did
\* when the module was loaded.
C23_GenericTypeLeavesGrammar ==
  \A o \in DOMAIN LoadedRegistry :
    /\ ObjectRegistry(DF_OBJECT_REGISTRY)[o] = LoadedRegistry[o]
    /\ \A name \in DOMAIN TagRegistry(TAG) :
         Recognizes(TagRegistry(TAG), LoadedRegistry[o], name)
           <=> Recognizes(LoadedTAG, LoadedRegistry[o], name)

\* C24: DuplicateDefinition is raised for a start tag only when the record
\* already indexed under its object type and subtype has an identifier of the
\* same source text.
C24_IdentifiersAsWritten ==
  [][(/\ consumer = "ImportStream"
      /\ pc = "reading"
      /\ pc' = "raised"
      /\ raised'.type = "DuplicateDefinition")
     => /\ KeyNow(Last(emitted').tag) \in DOMAIN objects
        /\ heap[objects[KeyNow(Last(emitted').tag)]].typetag.raw[2]
             = Last(emitted').tag.raw[2]]_vars

====
